---- MODULE Spec2Model ----
(***************************************************************************)
(* A model of MCPClient (src/client/mcp_client.py): the tool-calling       *)
(* conversation loop process_query, the LLM call, the dispatch of the      *)
(* requested tool calls through the MCP session, and the transcript        *)
(* recorder log_conversation.                                              *)
(*                                                                         *)
(* The client object holds one conversation, self.messages.  Every         *)
(* invocation of process_query is a call frame with its own position and   *)
(* its own local variables (message.tool_calls, the position in the for    *)
(* loop); the frames share self.messages and the conversations directory.  *)
(*                                                                         *)
(* Spec: the queries of a connected client, one at a time.                 *)
(* SpecSession: connect_to_server, tool discovery and cleanup.             *)
(* SpecLife: both together.                                                *)
(* SpecRecorder: log_conversation applied to any conversation.             *)
(* SpecOverlap: queries started while another one is suspended.            *)
(***************************************************************************)
EXTENDS Naturals, Sequences, FiniteSets, TLC

(***************************************************************************)
(* Bounds of the model.                                                    *)
(***************************************************************************)
\* LLM calls made by all queries of one run of the model
MaxLLMCalls == 2
\* tool calls in one assistant message
MaxCalls == 2
\* seconds the wall clock advances during one run of the model
MaxClock == 1
\* tool descriptors in one list_tools response
MaxTools == 2
\* calls of connect_to_server on one client
MaxConnects == 2
\* messages of a conversation handed to log_conversation directly
MaxMessages == 2

\* the call frames of process_query
Invs == {1, 2}

(***************************************************************************)
(* Values.  A Python value held in a message is a string, None, or the     *)
(* list of content objects an MCP CallToolResult carries.                  *)
(***************************************************************************)
Str(s) == [t |-> "str", v |-> s]
None == [t |-> "None"]
ContentObjects(s) == [t |-> "objects", v |-> s]

\* the queries of the callers: the k-th asked of the client
QueryText(k) == IF k % 2 = 1 THEN "2+2?" ELSE "weather?"
\* message.content of a response without tool calls
FinalTexts == {Str("4")}
\* message.content of a response with tool calls: usually None, may be text
ToolTurnTexts == {None}
\* result.content of a successful call_tool
ToolResults == {ContentObjects("15C")}

(***************************************************************************)
(* Tool calls.  function.arguments is JSON text, held here as its tokens.  *)
(***************************************************************************)
ArgsOk == <<"{", "query", ":", "hi", "}">>
ArgsBad == <<"{", "query", ":">>
Scalars == {"hi", "3"}
Keys == {"query"}

RECURSIVE Members(_)
\* the members of a JSON object: key : value, separated by commas
Members(m) ==
    \/ m = <<>>
    \/ /\ Len(m) >= 3
       /\ m[1] \in Keys
       /\ m[2] = ":"
       /\ m[3] \in Scalars
       /\ \/ Len(m) = 3
          \/ Len(m) > 4 /\ m[4] = "," /\ Members(SubSeq(m, 5, Len(m)))

\* json.loads succeeds on a scalar or on a well-formed object
JsonValid(s) ==
    \/ Len(s) = 1 /\ s[1] \in Scalars
    \/ /\ Len(s) >= 2
       /\ s[1] = "{"
       /\ s[Len(s)] = "}"
       /\ Members(SubSeq(s, 2, Len(s) - 1))

\* A tool call of a response is an object of the endpoint's client library
\* (repr "model": it has to_dict); a conversation may also hold one as a
\* plain mapping (repr "dict") or as a bare object (repr "object").
ToolCall(id, name, arguments) ==
    [repr |-> "model", id |-> id, type |-> "function",
     function |-> [name |-> name, arguments |-> arguments]]

\* the same call held as a plain mapping, in the wire shape (with the
\* "type" key) or reduced to id and function
ToolCallDict(id, name, arguments, wire) ==
    IF wire
    THEN [repr |-> "dict", id |-> id, type |-> "function",
          function |-> [name |-> name, arguments |-> arguments]]
    ELSE [repr |-> "dict", id |-> id,
          function |-> [name |-> name, arguments |-> arguments]]

\* the same call held as an object that has no to_dict
ToolCallObject(id, name, arguments) ==
    [repr |-> "object", id |-> id,
     function |-> [name |-> name, arguments |-> arguments]]

\* an object that has neither to_dict nor a function attribute
BrokenToolCall(id) == [repr |-> "object", id |-> id]

\* The ids the endpoint gives the n calls of one response: distinct, and not
\* in sorted order.
BatchIds(n) == [k \in 1..n |-> n + 1 - k]

\* A response's tool_calls: n calls, of which at most call `bad` has
\* arguments that are not JSON (bad = 0: none).
Batch(n, bad) ==
    [k \in 1..n |->
        ToolCall(BatchIds(n)[k], "chatbot", IF k = bad THEN ArgsBad ELSE ArgsOk)]

Batches == { Batch(n, bad) : n \in 1..MaxCalls, bad \in 0..MaxCalls }

(***************************************************************************)
(* Messages of the conversation: Python dicts, so a key is present or not. *)
(***************************************************************************)
UserMessage(q) == [role |-> "user", content |-> Str(q)]
AssistantText(c) == [role |-> "assistant", content |-> c]
AssistantToolCalls(c, tcs) ==
    [role |-> "assistant", content |-> c, tool_calls |-> tcs]
ToolMessage(id, r) == [role |-> "tool", tool_call_id |-> id, content |-> r]

(***************************************************************************)
(* The recorder's encoding (log_conversation, lines 173-202 and the        *)
(* json.dump of line 213).  A record is held as what reading it back       *)
(* yields.                                                                 *)
(***************************************************************************)
\* tool_call.to_dict(): the fields the endpoint set
ToDict(tc) ==
    [id |-> tc.id, type |-> tc.type,
     function |-> [name |-> tc.function.name,
                   arguments |-> tc.function.arguments]]

\* a plain mapping is appended as it is: all its keys
DictItems(tc) == [k \in DOMAIN tc \ {"repr"} |-> tc[k]]

EncodeToolCall(tc) ==
    IF tc.repr = "model" THEN ToDict(tc)
    ELSE IF tc.repr = "dict" THEN DictItems(tc)
    ELSE [id |-> tc.id,
          function |-> [name |-> tc.function.name,
                        arguments |-> tc.function.arguments]]

\* json.dump(..., default=str): a string and None are written as they are,
\* each object of a list is written as the text str() gives for it
JsonValue(v) ==
    IF v.t = "objects" THEN [t |-> "strings", v |-> v.v] ELSE v

SerializableMessage(m) ==
    [k \in DOMAIN m |->
        IF k = "content" THEN JsonValue(m[k])
        ELSE IF k = "tool_calls"
             THEN [j \in 1..Len(m[k]) |-> EncodeToolCall(m[k][j])]
        ELSE m[k]]

\* lines 174-206: building the entry of a message raises KeyError when the
\* message has no role, AttributeError when a tool call without to_dict
\* that is not a dict lacks id or function; nothing else raises
Normalizable(m) ==
    /\ "role" \in DOMAIN m
    /\ "tool_calls" \in DOMAIN m =>
          \A j \in 1..Len(m.tool_calls) :
              m.tool_calls[j].repr = "object" =>
                  {"id", "function"} \subseteq DOMAIN m.tool_calls[j]

SerializableConversation(msgs) ==
    [j \in 1..Len(msgs) |-> SerializableMessage(msgs[j])]

(***************************************************************************)
(* The tool catalog.  A ToolDescriptor of the server and the schema entry  *)
(* connect_to_server builds from it (lines 48-58).                         *)
(***************************************************************************)
\* the tool of src/server/mcp_server_test.py
ChatbotTool ==
    [name |-> "chatbot",
     description |-> "Generate a answer for user asked query",
     inputSchema |-> "{query: string}"]
\* another tool a server may list; its name sorts before "chatbot"
AddTool ==
    [name |-> "add", description |-> "Add two numbers",
     inputSchema |-> "{a: integer, b: integer}"]
Descriptors == {ChatbotTool, AddTool}

RECURSIVE SeqsUpTo(_, _)
\* the sequences over S of length at most n
SeqsUpTo(S, n) ==
    IF n = 0 THEN {<<>>}
    ELSE SeqsUpTo(S, n - 1) \cup
         {Append(q, x) : q \in {r \in SeqsUpTo(S, n - 1) : Len(r) = n - 1},
                         x \in S}

\* what list_tools may return: any order, repetitions included
ToolLists == SeqsUpTo(Descriptors, MaxTools)

\* lines 49-56: the schema entry of one descriptor
SchemaEntry(tool) ==
    [type |-> "function",
     function |-> [name |-> tool.name,
                   description |-> tool.description,
                   parameters |-> tool.inputSchema]]

\* (mutation: the entries are built in the reverse of the server's order)
BuildToolsReversed(mcp_tools) ==
    [k \in 1..Len(mcp_tools) |->
        SchemaEntry(mcp_tools[Len(mcp_tools) + 1 - k])]

\* lines 48-58: one entry for each tool of the response, in its order
BuildTools(mcp_tools) ==
    [k \in 1..Len(mcp_tools) |-> SchemaEntry(mcp_tools[k])]

(***************************************************************************)
(* State.                                                                  *)
(***************************************************************************)
VARIABLES
    messages,    \* self.messages: the conversation of the client
    files,       \* the conversations directory: file name (its second) -> file
    clock,       \* datetime.now(), in seconds
    pc,          \* per frame: where the invocation of process_query is
    query,       \* per frame: the argument query
    tool_calls,  \* per frame: message.tool_calls of the current turn
    idx,         \* per frame: calls of the current turn the for loop has taken
    ret,         \* per frame: the list returned, <<>> before the return
    err,         \* per frame: the call whose exception was re-raised, "" if none
    failure,     \* history, per frame: the call that raised, "" if none
    asked,       \* history: queries asked of the client
    llmTotal,    \* history: LLM calls made by all invocations
    llmCalls,    \* history, per frame: LLM calls of the invocation
    toolTurns,   \* history, per frame: responses with tool calls received
    issued,      \* history, per frame: ids given to call_tool since the
                 \* last response
    own,         \* history, per frame: the messages the invocation produced
    recorded,    \* history, per frame: conversations the recorder has written
    okWrites,    \* history: record writes that succeeded
    sent,        \* history, per frame: the messages given to the last LLM call
    lastWrite,   \* history: the file and the frame of the last record
                 \* written (by = 0: none yet)
    serverTools, \* the tool server: the descriptors list_tools returns
    cpc,         \* where the caller is with connect_to_server and cleanup
    stack,       \* self.exit_stack: the contexts entered, in order
    live,        \* the resources that are open (server process, session)
    tools,       \* self.tools: the schema list
    connects,    \* history: calls of connect_to_server
    prevTools,   \* history: the schema lists built so far, in order
    logResult    \* the outcome of a direct call of log_conversation

frameVars == <<pc, query, tool_calls, idx, ret, err>>
historyVars == <<failure, asked, llmTotal, llmCalls, toolTurns, issued, own,
                 recorded, okWrites, sent, lastWrite>>
\* the session's lifecycle and the outcome of a direct recorder call:
\* process_query reads and writes none of them
sideVars == <<serverTools, cpc, stack, live, tools, connects, prevTools,
              logResult>>
vars == <<messages, files, clock, frameVars, historyVars, sideVars>>

\* a frame that is not running an invocation
Free == {"idle", "done", "raised"}
\* the positions at which log_conversation is being awaited
Recording == {"log_final", "log_assistant", "log_tool"}

\* the resource a connect attempt opens: the server process with its pipes
\* (stdio_client) or the protocol session (ClientSession)
Resource(kind, n) == [kind |-> kind, n |-> n]

\* the records and the frames after construction: no file written, no
\* invocation started
InitFrames ==
    /\ files = <<>>
    /\ clock = 0
    /\ pc = [i \in Invs |-> "idle"]
    /\ query = [i \in Invs |-> ""]
    /\ tool_calls = [i \in Invs |-> <<>>]
    /\ idx = [i \in Invs |-> 0]
    /\ ret = [i \in Invs |-> <<>>]
    /\ err = [i \in Invs |-> ""]
    /\ failure = [i \in Invs |-> ""]
    /\ asked = 0
    /\ llmTotal = 0
    /\ llmCalls = [i \in Invs |-> 0]
    /\ toolTurns = [i \in Invs |-> 0]
    /\ issued = [i \in Invs |-> <<>>]
    /\ own = [i \in Invs |-> <<>>]
    /\ recorded = [i \in Invs |-> <<>>]
    /\ okWrites = 0
    /\ sent = [i \in Invs |-> <<>>]
    /\ lastWrite = [name |-> 0, by |-> 0]

\* lines 13-20: self.messages = []
InitQuery == messages = <<>> /\ InitFrames

\* a client that has connected (lines 23-64) to the server of
\* src/server/mcp_server_test.py and has processed no query yet
Init ==
    /\ InitQuery
    /\ serverTools = <<ChatbotTool>>
    /\ cpc = "connected"
    /\ stack = <<Resource("stdio", 1), Resource("session", 1)>>
    /\ live = {Resource("stdio", 1), Resource("session", 1)}
    /\ tools = BuildTools(serverTools)
    /\ connects = 1
    /\ prevTools = <<tools>>
    /\ logResult = ""

(***************************************************************************)
(* process_query.                                                          *)
(***************************************************************************)
\* (mutation: the user message is appended to the conversation of the
\* client instead of replacing it)
ResetMessagesKeepsHistory(msgs, q) == Append(msgs, UserMessage(q))

\* line 85: self.messages = [user_message]
ResetMessages(msgs, q) == <<UserMessage(q)>>

\* (mutation: the message is inserted at the front)
PrependMessage(msgs, m) == <<m>> \o msgs

\* self.messages.append(...)
AppendMessage(msgs, m) == Append(msgs, m)

\* (mutation: tool results are not recorded one by one)
AfterAppendBatched(kind) ==
    IF kind = "final" THEN "log_final"
    ELSE IF kind = "assistant" THEN "log_assistant"
    ELSE "dispatch"

\* lines 97, 108, 127: every append is followed by await
\* self.log_conversation()
AfterAppend(kind) ==
    IF kind = "final" THEN "log_final"
    ELSE IF kind = "assistant" THEN "log_assistant"
    ELSE "log_tool"

\* (mutation: the outer handler logs the exception and does not re-raise
\* it, so the invocation ends without an exception)
ReraiseSwallowed(i, op) ==
    /\ pc' = [pc EXCEPT ![i] = "done"]
    /\ UNCHANGED <<err, idx>>

\* lines 134-136: the outer handler logs the exception and re-raises it
Reraise(i, op) ==
    /\ pc' = [pc EXCEPT ![i] = "raised"]
    /\ err' = [err EXCEPT ![i] = op]
    /\ UNCHANGED idx

\* One query is processed fully before the next is accepted: a caller
\* starts process_query only when no invocation is in progress.
Quiescent == \A j \in Invs : pc[j] \in Free

\* the frame a new invocation gets: the first free one
NewFrame(i) == pc[i] \in Free /\ \A j \in Invs : j < i => pc[j] \notin Free

\* lines 81-85
Begin(i, q) ==
    /\ cpc = "connected"
    /\ NewFrame(i)
    /\ llmTotal < MaxLLMCalls
    /\ messages' = ResetMessages(messages, q)
    /\ pc' = [pc EXCEPT ![i] = "call_llm"]
    /\ query' = [query EXCEPT ![i] = q]
    /\ tool_calls' = [tool_calls EXCEPT ![i] = <<>>]
    /\ idx' = [idx EXCEPT ![i] = 0]
    /\ ret' = [ret EXCEPT ![i] = <<>>]
    /\ err' = [err EXCEPT ![i] = ""]
    /\ llmCalls' = [llmCalls EXCEPT ![i] = 0]
    /\ toolTurns' = [toolTurns EXCEPT ![i] = 0]
    /\ issued' = [issued EXCEPT ![i] = <<>>]
    /\ own' = [own EXCEPT ![i] = <<UserMessage(q)>>]
    /\ recorded' = [recorded EXCEPT ![i] = <<>>]
    /\ failure' = [failure EXCEPT ![i] = ""]
    /\ asked' = asked + 1
    /\ UNCHANGED <<files, clock, llmTotal, okWrites>>
    /\ sent' = [sent EXCEPT ![i] = <<>>]
    /\ UNCHANGED lastWrite
    /\ UNCHANGED sideVars

\* process_query called while no invocation is in progress
Start(i, q) == Quiescent /\ Begin(i, q)

\* (mutation: the request leaves the tool results out)
LLMRequestWithoutResults(msgs) == SelectSeq(msgs, LAMBDA m : m.role # "tool")

\* lines 148-153: messages=self.messages, the whole conversation
LLMRequest(msgs) == msgs

\* lines 88-96: the response has no tool calls
LLMFinal(i, c) ==
    /\ pc[i] = "call_llm"
    /\ llmTotal < MaxLLMCalls
    /\ messages' = AppendMessage(messages, AssistantText(c))
    /\ pc' = [pc EXCEPT ![i] = AfterAppend("final")]
    /\ llmTotal' = llmTotal + 1
    /\ llmCalls' = [llmCalls EXCEPT ![i] = @ + 1]
    /\ own' = [own EXCEPT ![i] = Append(@, AssistantText(c))]
    /\ issued' = [issued EXCEPT ![i] = <<>>]
    /\ UNCHANGED <<files, clock, query, tool_calls, idx, ret, err,
                   failure, asked, toolTurns, recorded, okWrites>>
    /\ sent' = [sent EXCEPT ![i] = LLMRequest(messages)]
    /\ UNCHANGED lastWrite
    /\ UNCHANGED sideVars

\* lines 88-91, 101-107: the response has tool calls
LLMToolCalls(i, c, tcs) ==
    /\ pc[i] = "call_llm"
    /\ llmTotal < MaxLLMCalls
    /\ messages' = AppendMessage(messages, AssistantToolCalls(c, tcs))
    /\ tool_calls' = [tool_calls EXCEPT ![i] = tcs]
    /\ idx' = [idx EXCEPT ![i] = 0]
    /\ pc' = [pc EXCEPT ![i] = AfterAppend("assistant")]
    /\ llmTotal' = llmTotal + 1
    /\ llmCalls' = [llmCalls EXCEPT ![i] = @ + 1]
    /\ toolTurns' = [toolTurns EXCEPT ![i] = @ + 1]
    /\ issued' = [issued EXCEPT ![i] = <<>>]
    /\ own' = [own EXCEPT ![i] = Append(@, AssistantToolCalls(c, tcs))]
    /\ UNCHANGED <<files, clock, query, ret, err, failure, asked, recorded,
                   okWrites>>
    /\ sent' = [sent EXCEPT ![i] = LLMRequest(messages)]
    /\ UNCHANGED lastWrite
    /\ UNCHANGED sideVars

\* lines 88, 154-156, 134-136: the LLM call raises; logged and re-raised.
\* (A response without choices ends the same way: line 94 raises.)
LLMFail(i) ==
    /\ pc[i] = "call_llm"
    /\ llmTotal < MaxLLMCalls
    /\ failure' = [failure EXCEPT ![i] = "call_llm"]
    /\ Reraise(i, "call_llm")
    /\ llmTotal' = llmTotal + 1
    /\ llmCalls' = [llmCalls EXCEPT ![i] = @ + 1]
    /\ UNCHANGED <<messages, files, clock, query, tool_calls, ret,
                   asked, toolTurns, issued, own, recorded, okWrites>>
    /\ sent' = [sent EXCEPT ![i] = LLMRequest(messages)]
    /\ UNCHANGED lastWrite
    /\ UNCHANGED sideVars

\* (mutation: the calls are taken last to first)
CallAtReversed(tcs, k) == tcs[Len(tcs) + 1 - k]

\* line 110: the call the k-th iteration of the for loop takes
CallAt(tcs, k) == tcs[k]

\* (mutation: the id is not taken from the call being answered)
ToolUseIdStale(tc) == 1

\* line 113: tool_use_id = tool_call.id
ToolUseId(tc) == tc.id

\* line 110: the for loop is exhausted; back to the while loop's LLM call
LoopBack(i) ==
    /\ pc[i] = "dispatch"
    /\ idx[i] >= Len(tool_calls[i])
    /\ pc' = [pc EXCEPT ![i] = "call_llm"]
    /\ UNCHANGED <<messages, files, clock, query, tool_calls, idx, ret, err,
                   historyVars>>
    /\ UNCHANGED sideVars

\* (mutation: a call whose arguments do not decode is skipped and the loop
\* goes on)
AfterDecodeFailureSkipped(i) ==
    /\ idx' = [idx EXCEPT ![i] = @ + 1]
    /\ UNCHANGED <<pc, err>>

\* lines 112, 134-136: json.loads raises outside the inner try; the outer
\* handler logs and re-raises
AfterDecodeFailure(i) == Reraise(i, "json.loads")

DecodeFail(i) ==
    /\ pc[i] = "dispatch"
    /\ idx[i] < Len(tool_calls[i])
    /\ ~JsonValid(CallAt(tool_calls[i], idx[i] + 1).function.arguments)
    /\ failure' = [failure EXCEPT ![i] = "json.loads"]
    /\ AfterDecodeFailure(i)
    /\ UNCHANGED <<messages, files, clock, query, tool_calls, ret,
                   asked, llmTotal, llmCalls, toolTurns, issued, own,
                   recorded, okWrites>>
    /\ UNCHANGED <<sent, lastWrite>>
    /\ UNCHANGED sideVars

\* lines 111-118: the arguments decode and session.call_tool is awaited
CallTool(i) ==
    /\ pc[i] = "dispatch"
    /\ idx[i] < Len(tool_calls[i])
    /\ JsonValid(CallAt(tool_calls[i], idx[i] + 1).function.arguments)
    /\ idx' = [idx EXCEPT ![i] = @ + 1]
    /\ issued' = [issued EXCEPT
                    ![i] = Append(@, CallAt(tool_calls[i], idx[i] + 1).id)]
    /\ pc' = [pc EXCEPT ![i] = "await_tool"]
    /\ UNCHANGED <<messages, files, clock, query, tool_calls, ret, err,
                   failure, asked, llmTotal, llmCalls, toolTurns, own,
                   recorded, okWrites>>
    /\ UNCHANGED <<sent, lastWrite>>
    /\ UNCHANGED sideVars

\* lines 118-126: call_tool returns; its content is appended
ToolResult(i, r) ==
    /\ pc[i] = "await_tool"
    /\ messages' = AppendMessage(messages,
                       ToolMessage(ToolUseId(CallAt(tool_calls[i], idx[i])), r))
    /\ own' = [own EXCEPT
                 ![i] = Append(@, ToolMessage(
                                    ToolUseId(CallAt(tool_calls[i], idx[i])), r))]
    /\ pc' = [pc EXCEPT ![i] = AfterAppend("tool")]
    /\ UNCHANGED <<files, clock, query, tool_calls, idx, ret, err,
                   failure, asked, llmTotal, llmCalls, toolTurns, issued,
                   recorded, okWrites>>
    /\ UNCHANGED <<sent, lastWrite>>
    /\ UNCHANGED sideVars

\* (mutation: the inner handler logs the exception and does not re-raise it,
\* so the for loop goes on with the next call)
AfterToolFailureSwallowed(i) ==
    /\ pc' = [pc EXCEPT ![i] = "dispatch"]
    /\ UNCHANGED <<err, idx>>

\* lines 128-130, then 134-136: the inner handler logs the exception of
\* call_tool and re-raises it, and so does the outer one
AfterToolFailure(i) == Reraise(i, "call_tool")

\* line 118: call_tool raises
ToolFail(i) ==
    /\ pc[i] = "await_tool"
    /\ failure' = [failure EXCEPT ![i] = "call_tool"]
    /\ AfterToolFailure(i)
    /\ UNCHANGED <<messages, files, clock, query, tool_calls, ret,
                   asked, llmTotal, llmCalls, toolTurns, issued, own,
                   recorded, okWrites>>
    /\ UNCHANGED <<sent, lastWrite>>
    /\ UNCHANGED sideVars

(***************************************************************************)
(* log_conversation.                                                       *)
(***************************************************************************)
\* lines 208-209: conversation_<%Y-%m-%d_%H-%M-%S>.json, one name a second
FileName(t) == t

\* (mutation: a file that exists is left as it is)
WriteFileExclusive(fs, name, body) ==
    [n \in DOMAIN fs \cup {name} |->
        IF n \in DOMAIN fs THEN fs[n] ELSE [complete |-> TRUE, body |-> body]]

\* lines 212-213: open(filepath, "w") makes the file or empties the one of
\* that name, and json.dump fills it
WriteFile(fs, name, body) ==
    [n \in DOMAIN fs \cup {name} |->
        IF n = name THEN [complete |-> TRUE, body |-> body] ELSE fs[n]]

\* a write that raised after open: the file is there, cut short
TruncateFile(fs, name) ==
    [n \in DOMAIN fs \cup {name} |->
        IF n = name THEN [complete |-> FALSE, body |-> <<>>] ELSE fs[n]]

\* (mutation: no break after the final answer is recorded)
AfterRecordNoBreak(p) == "dispatch"

\* where process_query goes on after the await of log_conversation
AfterRecord(p) ==
    IF p = "log_final" THEN "done" ELSE "dispatch"

\* lines 168-213, then lines 98 and 132 (break; return self.messages),
\* line 110 (the for loop) or its next iteration
LogConversation(i) ==
    /\ pc[i] \in Recording
    /\ files' = WriteFile(files, FileName(clock),
                          SerializableConversation(messages))
    /\ recorded' = [recorded EXCEPT ![i] = Append(@, messages)]
    /\ okWrites' = okWrites + 1
    /\ pc' = [pc EXCEPT ![i] = AfterRecord(pc[i])]
    /\ ret' = [ret EXCEPT
                 ![i] = IF AfterRecord(pc[i]) = "done" THEN messages ELSE @]
    /\ UNCHANGED <<messages, clock, query, tool_calls, idx, err,
                   failure, asked, llmTotal, llmCalls, toolTurns, issued, own>>
    /\ lastWrite' = [name |-> FileName(clock), by |-> i]
    /\ UNCHANGED sent
    /\ UNCHANGED sideVars

\* lines 211-217, 134-136: open or json.dump raises; logged and re-raised.
\* opened: open had succeeded, so the file exists and is cut short.
LogFail(i, opened) ==
    /\ pc[i] \in Recording
    /\ files' = IF opened THEN TruncateFile(files, FileName(clock)) ELSE files
    /\ failure' = [failure EXCEPT ![i] = "log_conversation"]
    /\ Reraise(i, "log_conversation")
    /\ UNCHANGED <<messages, clock, query, tool_calls, ret,
                   asked, llmTotal, llmCalls, toolTurns, issued, own,
                   recorded, okWrites>>
    /\ UNCHANGED <<sent, lastWrite>>
    /\ UNCHANGED sideVars

\* a second passes
Tick ==
    /\ clock < MaxClock
    /\ clock' = clock + 1
    /\ UNCHANGED <<messages, files, frameVars, historyVars>>
    /\ UNCHANGED sideVars

Next ==
    \/ \E i \in Invs : Start(i, QueryText(asked + 1))
    \/ \E i \in Invs, c \in FinalTexts : LLMFinal(i, c)
    \/ \E i \in Invs, c \in ToolTurnTexts, tcs \in Batches : LLMToolCalls(i, c, tcs)
    \/ \E i \in Invs : LLMFail(i)
    \/ \E i \in Invs : LoopBack(i)
    \/ \E i \in Invs : DecodeFail(i)
    \/ \E i \in Invs : CallTool(i)
    \/ \E i \in Invs, r \in ToolResults : ToolResult(i, r)
    \/ \E i \in Invs : ToolFail(i)
    \/ \E i \in Invs : LogConversation(i)
    \/ \E i \in Invs, opened \in BOOLEAN : LogFail(i, opened)
    \/ Tick

Spec == Init /\ [][Next]_vars

(***************************************************************************)
(* The session's lifecycle: connect_to_server (lines 23-69), get_mcp_tools *)
(* (lines 72-78) and cleanup (lines 159-166).  Each await is one step.     *)
(***************************************************************************)
\* the server script paths a caller passes, as stem and suffix
ScriptPaths == {<<"server", ".py">>, <<"server", ".js">>, <<"server", ".sh">>}

\* str.endswith
EndsWith(path, suffix) == path[Len(path)] = suffix

\* the elements of a sequence
Range(q) == {q[k] : k \in 1..Len(q)}

\* lines 66-69: logged, traceback printed, re-raised; the exit stack and
\* what it holds are left as they are
AfterConnectFailure ==
    /\ cpc' = "connect_raised"
    /\ UNCHANGED <<stack, live>>

\* exit_stack.enter_async_context: the context is entered and its exit
\* is pushed on the stack
EnterContext(r) ==
    /\ stack' = Append(stack, r)
    /\ live' = live \cup {r}

\* lines 24-33: the suffix of the script path is validated
ConnectStart(path) ==
    /\ cpc \in {"new", "connected", "connect_raised"}
    /\ Quiescent
    /\ connects < MaxConnects
    /\ connects' = connects + 1
    /\ IF EndsWith(path, ".py") \/ EndsWith(path, ".js")
       THEN cpc' = "stdio_client" /\ UNCHANGED <<stack, live>>
       ELSE AfterConnectFailure
    /\ UNCHANGED <<serverTools, tools, prevTools, logResult>>
    /\ UNCHANGED <<messages, files, clock, frameVars, historyVars>>

\* lines 35-38: the server process is started, or starting it raises
SpawnTransport(ok) ==
    /\ cpc = "stdio_client"
    /\ IF ok
       THEN cpc' = "ClientSession" /\ EnterContext(Resource("stdio", connects))
       ELSE AfterConnectFailure
    /\ UNCHANGED <<serverTools, tools, connects, prevTools, logResult>>
    /\ UNCHANGED <<messages, files, clock, frameVars, historyVars>>

\* lines 39-41: the session context is entered, or entering it raises
EnterSession(ok) ==
    /\ cpc = "ClientSession"
    /\ IF ok
       THEN cpc' = "initialize" /\ EnterContext(Resource("session", connects))
       ELSE AfterConnectFailure
    /\ UNCHANGED <<serverTools, tools, connects, prevTools, logResult>>
    /\ UNCHANGED <<messages, files, clock, frameVars, historyVars>>

\* line 43: the protocol handshake, or it raises
Initialize(ok) ==
    /\ cpc = "initialize"
    /\ IF ok
       THEN cpc' = "list_tools" /\ UNCHANGED <<stack, live>>
       ELSE AfterConnectFailure
    /\ UNCHANGED <<serverTools, tools, connects, prevTools, logResult>>
    /\ UNCHANGED <<messages, files, clock, frameVars, historyVars>>

\* lines 47-64 and 72-78: list_tools answers and self.tools is rebuilt
\* from response.tools; or list_tools raises, which get_mcp_tools logs and
\* re-raises into the handler of connect_to_server
ListTools(ok) ==
    /\ cpc = "list_tools"
    /\ IF ok
       THEN /\ tools' = BuildTools(serverTools)
            /\ prevTools' = Append(prevTools, tools')
            /\ cpc' = "connected"
            /\ UNCHANGED <<stack, live>>
       ELSE /\ AfterConnectFailure
            /\ UNCHANGED <<tools, prevTools>>
    /\ UNCHANGED <<serverTools, connects, logResult>>
    /\ UNCHANGED <<messages, files, clock, frameVars, historyVars>>

\* lines 160-166: aclose returned, or it raised and cleanup re-raises
CleanupOutcome(failing) == IF failing = {} THEN "closed" ELSE "close_raised"

\* lines 159-166.  aclose runs every exit on the stack, last entered
\* first, also after one of them raised.  failing: the contexts whose
\* exit raises; stuck: those of them that are still open afterwards.
Cleanup(failing, stuck) ==
    /\ cpc \in {"connected", "connect_raised"}
    /\ Quiescent
    /\ failing \subseteq Range(stack)
    /\ stuck \subseteq failing
    /\ stack' = <<>>
    /\ live' = (live \ Range(stack)) \cup stuck
    /\ cpc' = CleanupOutcome(failing)
    /\ UNCHANGED <<serverTools, tools, connects, prevTools, logResult>>
    /\ UNCHANGED <<messages, files, clock, frameVars, historyVars>>

\* every resource a client can hold
Resources == {Resource(k, n) : k \in {"stdio", "session"}, n \in 1..MaxConnects}

Lifecycle ==
    \/ \E path \in ScriptPaths : ConnectStart(path)
    \/ \E ok \in BOOLEAN : SpawnTransport(ok)
    \/ \E ok \in BOOLEAN : EnterSession(ok)
    \/ \E ok \in BOOLEAN : Initialize(ok)
    \/ \E ok \in BOOLEAN : ListTools(ok)
    \/ \E failing \in SUBSET Resources, stuck \in SUBSET Resources :
          Cleanup(failing, stuck)

\* a client after construction (lines 13-20), facing a server with any of
\* the tool lists
InitSession ==
    /\ serverTools \in ToolLists
    /\ cpc = "new"
    /\ stack = <<>>
    /\ live = {}
    /\ tools = <<>>
    /\ connects = 0
    /\ prevTools = <<>>
    /\ logResult = ""
    /\ InitQuery

NextSession == Lifecycle

\* connecting, discovering and closing, without queries
SpecSession == InitSession /\ [][NextSession]_vars

(***************************************************************************)
(* log_conversation called on its own.  self.messages is a public         *)
(* attribute and log_conversation a public method: the recorder is applied *)
(* to whatever conversation the client holds.                              *)
(***************************************************************************)
\* the messages a conversation may hold
MessagePool ==
    {UserMessage("2+2?"),
     AssistantText(Str("4")),
     AssistantToolCalls(None, <<ToolCall(1, "chatbot", ArgsOk)>>),
     AssistantToolCalls(None, <<ToolCallDict(1, "chatbot", ArgsOk, TRUE)>>),
     AssistantToolCalls(None, <<ToolCallDict(1, "chatbot", ArgsOk, FALSE)>>),
     AssistantToolCalls(None, <<ToolCallObject(1, "chatbot", ArgsOk)>>),
     AssistantToolCalls(None, <<BrokenToolCall(1)>>),
     ToolMessage(1, ContentObjects("15C")),
     [role |-> "tool", content |-> ContentObjects("15C")],
     [content |-> Str("4")]}

Conversations == SeqsUpTo(MessagePool, MaxMessages)

\* lines 168-213 on a conversation every message of which has an entry:
\* the record is written and log_conversation returns
LogDirect ==
    /\ logResult = ""
    /\ \A k \in 1..Len(messages) : Normalizable(messages[k])
    /\ files' = WriteFile(files, FileName(clock),
                          SerializableConversation(messages))
    /\ lastWrite' = [name |-> FileName(clock), by |-> 0]
    /\ okWrites' = okWrites + 1
    /\ logResult' = "returned"
    /\ UNCHANGED <<messages, clock, frameVars>>
    /\ UNCHANGED <<failure, asked, llmTotal, llmCalls, toolTurns, issued, own,
                   recorded, sent>>
    /\ UNCHANGED <<serverTools, cpc, stack, live, tools, connects, prevTools>>

\* lines 203-206: the entry of some message raises; logged and re-raised
\* before any file is opened
LogDirectRaise ==
    /\ logResult = ""
    /\ \E k \in 1..Len(messages) : ~Normalizable(messages[k])
    /\ logResult' = "raised"
    /\ UNCHANGED <<messages, files, clock, frameVars, historyVars>>
    /\ UNCHANGED <<serverTools, cpc, stack, live, tools, connects, prevTools>>

\* lines 211-217: open or json.dump raises; logged and re-raised
LogDirectFail(opened) ==
    /\ logResult = ""
    /\ \A k \in 1..Len(messages) : Normalizable(messages[k])
    /\ files' = IF opened THEN TruncateFile(files, FileName(clock)) ELSE files
    /\ logResult' = "raised"
    /\ UNCHANGED <<messages, clock, frameVars, historyVars>>
    /\ UNCHANGED <<serverTools, cpc, stack, live, tools, connects, prevTools>>

\* a connected client that holds any of the conversations
InitRecorder ==
    /\ messages \in Conversations
    /\ InitFrames
    /\ serverTools = <<ChatbotTool>>
    /\ cpc = "connected"
    /\ stack = <<Resource("stdio", 1), Resource("session", 1)>>
    /\ live = {Resource("stdio", 1), Resource("session", 1)}
    /\ tools = BuildTools(serverTools)
    /\ connects = 1
    /\ prevTools = <<tools>>
    /\ logResult = ""

NextRecorder ==
    \/ LogDirect
    \/ LogDirectRaise
    \/ \E opened \in BOOLEAN : LogDirectFail(opened)
    \/ Tick

SpecRecorder == InitRecorder /\ [][NextRecorder]_vars

(***************************************************************************)
(* process_query called again while an invocation is suspended.  The       *)
(* invocations are coroutines of one event loop: one runs until it         *)
(* suspends, and the only await of process_query that suspends is that of  *)
(* session.call_tool (line 118); call_llm and log_conversation await       *)
(* nothing inside, and the LLM request is a blocking call.                 *)
(***************************************************************************)
\* no invocation other than i is running: each is suspended or not started
OthersSuspended(i) ==
    \A j \in Invs \ {i} : pc[j] \in Free \cup {"await_tool"}

NextOverlap ==
    \/ \E i \in Invs : OthersSuspended(i) /\ Begin(i, QueryText(asked + 1))
    \/ \E i \in Invs, c \in FinalTexts : OthersSuspended(i) /\ LLMFinal(i, c)
    \/ \E i \in Invs, c \in ToolTurnTexts, tcs \in Batches :
          OthersSuspended(i) /\ LLMToolCalls(i, c, tcs)
    \/ \E i \in Invs : OthersSuspended(i) /\ LLMFail(i)
    \/ \E i \in Invs : OthersSuspended(i) /\ LoopBack(i)
    \/ \E i \in Invs : OthersSuspended(i) /\ DecodeFail(i)
    \/ \E i \in Invs : OthersSuspended(i) /\ CallTool(i)
    \/ \E i \in Invs, r \in ToolResults : OthersSuspended(i) /\ ToolResult(i, r)
    \/ \E i \in Invs : OthersSuspended(i) /\ ToolFail(i)
    \/ \E i \in Invs : OthersSuspended(i) /\ LogConversation(i)
    \/ \E i \in Invs, opened \in BOOLEAN : OthersSuspended(i) /\ LogFail(i, opened)
    \/ Tick

\* a connected client whose caller starts queries without awaiting the
\* ones in progress
SpecOverlap == Init /\ [][NextOverlap]_vars

\* a client after construction that faces the server of
\* src/server/mcp_server_test.py
InitLife == InitSession /\ serverTools = <<ChatbotTool>>

NextLife == Next \/ Lifecycle

\* the whole life of a client: connecting, queries, closing
SpecLife == InitLife /\ [][NextLife]_vars

(***************************************************************************)
(* The conversation, read by turns.                                        *)
(***************************************************************************)
\* the position of the last assistant message, 0 if there is none
LastAssistant(msgs) ==
    LET S == {k \in 1..Len(msgs) : msgs[k].role = "assistant"}
    IN  IF S = {} THEN 0 ELSE CHOOSE k \in S : \A j \in S : j <= k

\* the tool calls of the last assistant message
TurnCalls(msgs) ==
    LET a == LastAssistant(msgs)
    IN  IF a > 0 /\ "tool_calls" \in DOMAIN msgs[a]
        THEN msgs[a].tool_calls ELSE <<>>

\* the messages after the last assistant message
TurnResults(msgs) ==
    IF LastAssistant(msgs) = 0 THEN <<>>
    ELSE SubSeq(msgs, LastAssistant(msgs) + 1, Len(msgs))

\* the ids of the first n calls of a list
Ids(tcs, n) == [k \in 1..n |-> tcs[k].id]

\* res is the tool-role results of the first Len(res) calls of tcs, in order
AnswersInOrder(tcs, res) ==
    /\ Len(res) <= Len(tcs)
    /\ \A k \in 1..Len(res) :
          res[k].role = "tool" /\ res[k].tool_call_id = tcs[k].id

(***************************************************************************)
(* C1.  Sequential dispatch: in every turn with tool calls t1..tn, the     *)
(* tool-role messages appended are those of t1, t2, ... in that order,     *)
(* call_tool is issued for the calls in the listed order, and it is issued *)
(* for a call only when the results of all calls before it have been       *)
(* appended (at most one issued call has no result yet).                   *)
(***************************************************************************)
C1_SequentialDispatch ==
    \A i \in Invs : pc[i] # "idle" =>
        LET tcs == TurnCalls(messages)
            res == TurnResults(messages)
            n   == Len(issued[i])
        IN  /\ n <= Len(tcs)
            /\ issued[i] = Ids(tcs, n)
            /\ AnswersInOrder(tcs, res)
            /\ Len(res) <= n
            /\ n <= Len(res) + 1

\* the second call of a turn has been issued and both results are appended
C1_Witness ==
    \E i \in Invs :
        /\ pc[i] = "dispatch"
        /\ Len(issued[i]) = 2
        /\ Len(TurnResults(messages)) = 2

(***************************************************************************)
(* C2.  Fail-fast on tool error: when call_tool raised for the k-th call   *)
(* of a turn, process_query has raised that exception and has not          *)
(* returned, the conversation holds the results of calls 1..k-1 and no     *)
(* other tool-role message of the turn, and call_tool was issued for calls *)
(* 1..k only.                                                              *)
(***************************************************************************)
C2_FailFast ==
    \A i \in Invs : failure[i] = "call_tool" =>
        LET tcs == TurnCalls(messages)
            res == TurnResults(messages)
            k   == idx[i]
        IN  /\ pc[i] = "raised"
            /\ err[i] = "call_tool"
            /\ ret[i] = <<>>
            /\ k \in 1..Len(tcs)
            /\ Len(res) = k - 1
            /\ AnswersInOrder(tcs, res)
            /\ issued[i] = Ids(tcs, k)

\* the second call of a turn failed after the first one's result was appended
C2_Witness ==
    \E i \in Invs :
        /\ failure[i] = "call_tool"
        /\ idx[i] = 2
        /\ Len(TurnResults(messages)) = 1

(***************************************************************************)
(* C3.  Termination without tools: when the first response of a query has  *)
(* no tool calls, the invocation makes exactly one LLM call and no         *)
(* call_tool, the conversation is the user message with the query and the  *)
(* assistant message with the response text, and the invocation ends by    *)
(* returning that conversation (or by raising, when writing the record     *)
(* raised).                                                                *)
(***************************************************************************)
FirstResponseFinal(i) ==
    /\ pc[i] # "idle"
    /\ Len(own[i]) >= 2
    /\ own[i][2].role = "assistant"
    /\ "tool_calls" \notin DOMAIN own[i][2]

C3_TerminationWithoutTools ==
    \A i \in Invs : FirstResponseFinal(i) =>
        /\ llmCalls[i] = 1
        /\ issued[i] = <<>>
        /\ Len(messages) = 2
        /\ messages[1] = UserMessage(query[i])
        /\ messages[2] = AssistantText(own[i][2].content)
        /\ pc[i] \in {"log_final", "done", "raised"}
        /\ pc[i] = "raised" => failure[i] = "log_conversation"
        /\ pc[i] = "done" => ret[i] = messages

\* a query answered without tools has returned its two messages
C3_Witness ==
    \E i \in Invs :
        /\ FirstResponseFinal(i)
        /\ pc[i] = "done"
        /\ Len(ret[i]) = 2
        /\ llmCalls[i] = 1

(***************************************************************************)
(* C4.  Turn limit: there is a maximum turn count L such that a query in   *)
(* which the model has requested tools on more than L turns has failed     *)
(* with TurnLimitExceeded (here: for some L below the number of LLM calls  *)
(* the model explores).                                                    *)
(***************************************************************************)
C4_TurnLimit ==
    \A i \in Invs : \E L \in 0..(MaxLLMCalls - 1) :
        (toolTurns[i] > L /\ pc[i] # "log_assistant")
            => (pc[i] = "raised" /\ err[i] = "TurnLimitExceeded")

(***************************************************************************)
(* C5.  Record after every mutation: every conversation the recorder has   *)
(* written is the conversation as it was after one more append (the j-th   *)
(* record holds the first j+1 messages), and whenever the invocation is    *)
(* about to call the LLM, is about to call or is awaiting a tool, or has   *)
(* returned, every appended message has been recorded: a conversation of n *)
(* messages has n-1 records.                                               *)
(***************************************************************************)
C5_RecordAfterEveryMutation ==
    \A i \in Invs : pc[i] # "idle" =>
        LET n == Len(messages)
            r == recorded[i]
        IN  /\ \A j \in 1..Len(r) : r[j] = SubSeq(messages, 1, j + 1)
            /\ pc[i] \in {"call_llm", "dispatch", "await_tool", "done"}
                   => Len(r) = n - 1
            /\ pc[i] \in Recording => Len(r) = n - 2
            /\ pc[i] = "done" => Len(r) = Len(ret[i]) - 1

\* user, assistant with a tool call, tool result, final answer: three records
C5_Witness ==
    \E i \in Invs :
        /\ pc[i] = "done"
        /\ Len(ret[i]) = 4
        /\ ret[i][3].role = "tool"
        /\ Len(recorded[i]) = 3

(***************************************************************************)
(* C6.  Unique transcript records: no write overwrites an existing record, *)
(* so the number of stored records equals the number of successful writes. *)
(***************************************************************************)
C6_UniqueRecords ==
    Cardinality({n \in DOMAIN files : files[n].complete}) = okWrites

(***************************************************************************)
(* C7.  No cross-query memory: an invocation starts from the conversation  *)
(* that holds its user message alone, and at every later point, its return *)
(* included, the conversation is that user message followed by the         *)
(* messages this invocation produced, whatever earlier queries left.       *)
(***************************************************************************)
C7_NoCrossQueryMemory ==
    \A i \in Invs : pc[i] # "idle" =>
        /\ Len(messages) >= 1
        /\ messages[1] = UserMessage(query[i])
        /\ \A k \in 2..Len(messages) : messages[k].role # "user"
        /\ messages = own[i]
        /\ (pc[i] = "call_llm" /\ llmCalls[i] = 0)
               => messages = <<UserMessage(query[i])>>
        /\ pc[i] = "done" => ret[i] = own[i]

\* a later query has returned while a record of an earlier query, which had
\* appended messages, is on disk
C7_Witness ==
    \E i \in Invs :
        /\ asked >= 2
        /\ pc[i] = "done"
        /\ \E n \in DOMAIN files :
              /\ files[n].complete
              /\ files[n].body[1].content # Str(query[i])

(***************************************************************************)
(* C8.  Append-only conversation: every step taken while an invocation is  *)
(* in progress, the steps that end in an error included, leaves the        *)
(* conversation unchanged or appends one message at its end.               *)
(***************************************************************************)
IsPrefix(a, b) == Len(a) <= Len(b) /\ SubSeq(b, 1, Len(a)) = a

C8_AppendOnly ==
    [][(\E i \in Invs : pc[i] \notin Free)
          => /\ IsPrefix(messages, messages')
             /\ Len(messages') <= Len(messages) + 1]_vars

\* an invocation has raised after it had appended messages
C8_Witness ==
    \E i \in Invs :
        /\ pc[i] = "raised"
        /\ Len(messages) >= 3

(***************************************************************************)
(* C9.  Tool-message correlation: every tool-role message of the           *)
(* conversation is the k-th message after the nearest assistant message    *)
(* before it, only tool-role messages lie in between, that assistant       *)
(* message lists at least k calls, and the tool_call_id is the id of its   *)
(* k-th call; no two tool-role messages of one block carry the same id.    *)
(***************************************************************************)
\* the position of the nearest assistant message before position p, or 0
AssistantBefore(msgs, p) == LastAssistant(SubSeq(msgs, 1, p - 1))

Correlated(msgs) ==
    \A p \in 1..Len(msgs) : msgs[p].role = "tool" =>
        LET a == AssistantBefore(msgs, p)
        IN  /\ a > 0
            /\ "tool_calls" \in DOMAIN msgs[a]
            /\ p - a <= Len(msgs[a].tool_calls)
            /\ msgs[p].tool_call_id = msgs[a].tool_calls[p - a].id
            /\ \A j \in (a + 1)..p : msgs[j].role = "tool"
            /\ \A j \in (a + 1)..(p - 1) :
                  msgs[j].tool_call_id # msgs[p].tool_call_id

C9_ToolMessageCorrelation ==
    /\ Correlated(messages)
    /\ \A i \in Invs : Correlated(ret[i])

\* the second call of a second turn with tool calls has been answered
C9_Witness ==
    \E p \in 1..Len(messages) :
        /\ messages[p].role = "tool"
        /\ AssistantBefore(messages, p) > 2
        /\ p - AssistantBefore(messages, p) = 2

(***************************************************************************)
(* C10.  Malformed arguments abort the query: when the arguments of the    *)
(* k-th call of a turn did not decode, process_query has raised that       *)
(* exception and has not returned, call_tool was issued for calls 1..k-1   *)
(* only, the assistant message and the results of calls 1..k-1 are in the  *)
(* conversation, and no LLM call followed the one that listed the call.    *)
(***************************************************************************)
C10_MalformedArgumentsAbort ==
    \A i \in Invs : failure[i] = "json.loads" =>
        LET tcs == TurnCalls(messages)
            res == TurnResults(messages)
            k   == idx[i] + 1
        IN  /\ pc[i] = "raised"
            /\ err[i] = "json.loads"
            /\ ret[i] = <<>>
            /\ tcs = tool_calls[i]
            /\ k \in 1..Len(tcs)
            /\ ~JsonValid(tcs[k].function.arguments)
            /\ Len(res) = k - 1
            /\ AnswersInOrder(tcs, res)
            /\ issued[i] = Ids(tcs, k - 1)
            /\ llmCalls[i] = toolTurns[i]

\* the arguments of the second call of a turn did not decode, after the
\* first call's result was appended
C10_Witness ==
    \E i \in Invs :
        /\ failure[i] = "json.loads"
        /\ idx[i] = 1
        /\ Len(TurnResults(messages)) = 1

(***************************************************************************)
(* C11.  No swallowed failure: once an LLM call, an argument decode, a     *)
(* call_tool or a record write of an invocation has raised, the invocation *)
(* has ended by raising that exception and has returned nothing, and it    *)
(* has done nothing after the failing step: the LLM calls, the issued      *)
(* tool calls and the records are those made up to that step.              *)
(***************************************************************************)
\* the assistant messages of a conversation
Assistants(msgs) == {k \in 1..Len(msgs) : msgs[k].role = "assistant"}

C11_NoSwallowedFailure ==
    \A i \in Invs : failure[i] # "" =>
        /\ pc[i] = "raised"
        /\ err[i] = failure[i]
        /\ ret[i] = <<>>
        /\ failure[i] = "call_llm"
               => /\ llmCalls[i] = Cardinality(Assistants(own[i])) + 1
                  /\ Len(recorded[i]) = Len(own[i]) - 1
        /\ failure[i] # "call_llm"
               => llmCalls[i] = Cardinality(Assistants(own[i]))
        /\ failure[i] = "json.loads"
               => /\ Len(issued[i]) = Len(TurnResults(own[i]))
                  /\ Len(recorded[i]) = Len(own[i]) - 1
        /\ failure[i] = "call_tool"
               => /\ Len(issued[i]) = Len(TurnResults(own[i])) + 1
                  /\ Len(recorded[i]) = Len(own[i]) - 1
        /\ failure[i] = "log_conversation"
               => /\ Len(issued[i]) = Len(TurnResults(own[i]))
                  /\ Len(recorded[i]) = Len(own[i]) - 2

\* a record write raised after a tool result had been appended
C11_Witness ==
    \E i \in Invs :
        /\ failure[i] = "log_conversation"
        /\ pc[i] = "raised"
        /\ Len(TurnResults(own[i])) >= 1

\* C12: close does not propagate: when releasing the resources fails inside
\* cleanup, the failure is logged and cleanup returns normally; cleanup
\* never ends by raising to its caller.
C12_CloseDoesNotPropagate == cpc # "close_raised"

\* C13: scoped release: once connect_to_server has failed, once cleanup has
\* returned, and once process_query has raised, no resource opened by
\* connect_to_server is still open.
C13_ScopedRelease ==
    /\ cpc \in {"connect_raised", "closed"} => live = {}
    /\ \A i \in Invs : pc[i] = "raised" => live = {}

\* C17: order-preserving discovery: every schema list a discovery built has
\* one entry per descriptor of the server, the k-th entry carrying the
\* k-th descriptor's name, description and input schema unchanged; any two
\* discoveries built the same list; self.tools is the last list built.
C17_OrderPreservingDiscovery ==
    /\ \A d \in 1..Len(prevTools) :
          /\ Len(prevTools[d]) = Len(serverTools)
          /\ \A k \in 1..Len(serverTools) :
                /\ prevTools[d][k].type = "function"
                /\ prevTools[d][k].function.name = serverTools[k].name
                /\ prevTools[d][k].function.description = serverTools[k].description
                /\ prevTools[d][k].function.parameters = serverTools[k].inputSchema
    /\ \A d, e \in 1..Len(prevTools) : prevTools[d] = prevTools[e]
    /\ cpc = "connected" => tools = prevTools[Len(prevTools)]

\* two discoveries against a server whose list is neither sorted by name
\* nor free of a later repetition of its order
C17_Witness ==
    /\ Len(prevTools) = 2
    /\ cpc = "connected"
    /\ Len(serverTools) >= 2
    /\ serverTools[1] = ChatbotTool
    /\ serverTools[2] = AddTool

\* a tool-role message that has no tool_call_id
MissingToolCallId(m) ==
    "role" \in DOMAIN m /\ m.role = "tool" /\ "tool_call_id" \notin DOMAIN m

\* C14: un-normalizable messages are fatal: when a message of the
\* conversation cannot be normalized, in particular a tool-role message
\* without tool_call_id, log_conversation does not return normally and no
\* record is written.
C14_UnnormalizableFatal ==
    (\E k \in 1..Len(messages) :
        ~Normalizable(messages[k]) \/ MissingToolCallId(messages[k]))
    => logResult # "returned" /\ \A n \in DOMAIN files : ~files[n].complete

\* the one shape of a recorded tool call
NormalForm(tc) ==
    [id |-> tc.id,
     function |-> [name |-> tc.function.name,
                   arguments |-> tc.function.arguments]]

\* C15: representation-independent encoding: in the record written for
\* the conversation, every tool call is exactly {id, function: {name,
\* arguments}} whatever its representation in memory, tool_calls appears
\* only on assistant messages and tool_call_id only on tool messages.
C15_RepresentationIndependent ==
    logResult = "returned" =>
        LET rec == files[lastWrite.name].body
        IN  \A k \in 1..Len(rec) :
              /\ "tool_calls" \in DOMAIN rec[k] =>
                    /\ rec[k].role = "assistant"
                    /\ \A j \in 1..Len(rec[k].tool_calls) :
                          rec[k].tool_calls[j] = NormalForm(messages[k].tool_calls[j])
              /\ "tool_call_id" \in DOMAIN rec[k] => rec[k].role = "tool"

\* the record rec, read back, has the roles, the content values and the
\* correlation ids of the conversation conv
SameConversation(rec, conv) ==
    /\ Len(rec) = Len(conv)
    /\ \A k \in 1..Len(conv) :
          /\ rec[k].role = conv[k].role
          /\ rec[k].content = conv[k].content
          /\ "tool_calls" \in DOMAIN conv[k] =>
                /\ "tool_calls" \in DOMAIN rec[k]
                /\ Len(rec[k].tool_calls) = Len(conv[k].tool_calls)
                /\ \A j \in 1..Len(conv[k].tool_calls) :
                      rec[k].tool_calls[j].id = conv[k].tool_calls[j].id
          /\ "tool_call_id" \in DOMAIN conv[k] =>
                /\ "tool_call_id" \in DOMAIN rec[k]
                /\ rec[k].tool_call_id = conv[k].tool_call_id

\* C16: round-trip encoding: the record last written by process_query,
\* read back, has the length, the roles, the content values (null content
\* and tool result payload included) and the tool-call ids of the
\* conversation it was written for.
C16_RoundTrip ==
    (/\ lastWrite.by \in Invs
     /\ recorded[lastWrite.by] # <<>>
     /\ files[lastWrite.name].complete)
    => SameConversation(files[lastWrite.name].body,
                        recorded[lastWrite.by][Len(recorded[lastWrite.by])])

\* every tool call of every assistant message of msgs has its answer: the
\* k-th message after the assistant message is the tool-role message of its
\* k-th call, it is the only one of that block with the call's id, and the
\* block holds nothing more
AllAnswered(msgs) ==
    \A a \in 1..Len(msgs) :
        (msgs[a].role = "assistant" /\ "tool_calls" \in DOMAIN msgs[a]) =>
            LET n == Len(msgs[a].tool_calls)
            IN  /\ a + n <= Len(msgs)
                /\ \A k \in 1..n :
                      /\ msgs[a + k].role = "tool"
                      /\ msgs[a + k].tool_call_id = msgs[a].tool_calls[k].id
                      /\ Cardinality({j \in 1..n :
                            msgs[a + j].tool_call_id = msgs[a].tool_calls[k].id}) = 1
                /\ a + n < Len(msgs) => msgs[a + n + 1].role # "tool"

\* the conversation of invocation i as it was when its last LLM call was
\* made: all of it when the call raised, all but the response otherwise
ConversationAtCall(i) ==
    IF failure[i] = "call_llm" THEN own[i]
    ELSE SubSeq(own[i], 1, LastAssistant(own[i]) - 1)

\* C18: all calls answered before re-querying: the messages given to every
\* LLM call are the whole conversation of that moment, in them every tool
\* call of every assistant message has exactly one answering tool-role
\* message, and an invocation that is about to call the LLM has no
\* unanswered tool call.
C18_AllAnsweredBeforeRequery ==
    \A i \in Invs :
        /\ pc[i] = "call_llm" => AllAnswered(messages)
        /\ llmCalls[i] >= 1 =>
              /\ sent[i] = ConversationAtCall(i)
              /\ AllAnswered(sent[i])

\* the second LLM call of a query got the two answers of a two-call turn
C18_Witness ==
    \E i \in Invs :
        /\ llmCalls[i] = 2
        /\ Len(sent[i]) = 4
        /\ sent[i][3].role = "tool"
        /\ sent[i][4].role = "tool"

\* invocation i has written a record and is about to call the LLM, about
\* to call or awaiting a tool, has returned, or has raised for a failure
\* of the LLM call, of the decoding or of the tool call
AfterARecord(i) ==
    /\ Len(recorded[i]) >= 1
    /\ \/ pc[i] \in {"call_llm", "dispatch", "await_tool", "done"}
       \/ pc[i] = "raised" /\ failure[i] \in {"call_llm", "json.loads", "call_tool"}

\* C19: the latest record is the conversation so far: at each of these
\* points the record written last is complete, was written by this
\* invocation and is the encoding of the whole conversation in memory, one
\* entry for each message.
C19_LatestRecordIsConversation ==
    \A i \in Invs : AfterARecord(i) =>
        /\ lastWrite.by = i
        /\ lastWrite.name \in DOMAIN files
        /\ files[lastWrite.name].complete
        /\ files[lastWrite.name].body = SerializableConversation(messages)
        /\ Len(files[lastWrite.name].body) = Len(messages)

\* the second tool call of a turn failed after the first one's result was
\* recorded
C19_Witness ==
    \E i \in Invs :
        /\ pc[i] = "raised"
        /\ failure[i] = "call_tool"
        /\ Len(recorded[i]) = 2
        /\ messages[Len(messages)].role = "tool"

\* C20: isolation of overlapping queries: also when invocations overlap,
\* the conversation an invocation works on is its own user message
\* followed by the messages produced for its own query, and so is the
\* conversation it returns.
C20_IsolationOfOverlappingQueries ==
    \A i \in Invs :
        /\ pc[i] \in Recording \cup {"call_llm", "dispatch"} => messages = own[i]
        /\ pc[i] = "done" => ret[i] = own[i]

====
